---------------------------- MODULE Spec2Model ----------------------------
(***************************************************************************)
(* Model of src/load_data.py: read_data_bbo and read_data_trade, the tick  *)
(* data ingestion pipeline (archive scan, member selection, decoding,      *)
(* concatenation, time normalisation, quality filters, same-timestamp      *)
(* aggregation).                                                           *)
(*                                                                         *)
(* A table (polars DataFrame) is [cols |-> set of column names,            *)
(* rows |-> sequence of rows]; a row is a function from column name to     *)
(* value.  Every raw row also carries a ghost field "src" =                *)
(* <<ticker, member position, line>> that is no column: it records where   *)
(* the row came from.  An aggregated trade row carries the ghost field     *)
(* "srcs", the set of the raw rows it was computed from.                   *)
(*                                                                         *)
(* A timestamp is <<day, ms>>: the serial day (days since 1899-12-30) and  *)
(* the milliseconds within the day (the fractional part of xltime).        *)
(***************************************************************************)
EXTENDS Integers, Sequences, FiniteSets, TLC

VARIABLES fn, args, fs, pc, stock_set, folder_i, stock_dfs, DF, error,
          decoded, printed

vars == <<fn, args, fs, pc, stock_set, folder_i, stock_dfs, DF, error,
          decoded, printed>>

Null == "null"

\* ------------------------------------------------------------ bounds
\* Rows of one call, each drawn from the full row domain.
MaxRows == 2
\* Rows of one call drawn from the plain domain (valid, two timestamps).
MaxPlainRows == 3
\* Members of one archive.
MaxMembers == 2

\* ------------------------------------------------------- sequences
RECURSIVE SeqsUpTo(_, _)
SeqsUpTo(S, n) ==
    IF n = 0 THEN {<<>>}
    ELSE LET shorter == SeqsUpTo(S, n - 1)
         IN  shorter \cup {Append(s, x) : s \in {t \in shorter : Len(t) = n - 1}, x \in S}

RECURSIVE Flatten(_)
Flatten(ss) == IF ss = <<>> THEN <<>> ELSE Head(ss) \o Flatten(Tail(ss))

Range(s) == {s[k] : k \in 1..Len(s)}

\* str.startswith / str.endswith on names given as token sequences
StartsWith(s, p) == Len(s) >= Len(p) /\ SubSeq(s, 1, Len(p)) = p
EndsWith(s, p) == Len(s) >= Len(p) /\ SubSeq(s, Len(s) - Len(p) + 1, Len(s)) = p

\* ------------------------------------------------------------- time
MsPerDay == 86400000
MsPerHour == 3600000
MsPerMinute == 60000
MsPerSecond == 1000

\* a timestamp on serial day 39630 (2008-07-01, days since 1899-12-30)
At(h, m, s, ms) == <<39630, h * MsPerHour + m * MsPerMinute + s * MsPerSecond + ms>>

\* dt.convert_time_zone("America/New_York") of a naive (UTC) timestamp; the
\* days modelled lie in the summer-time period (UTC-4).
convert_time_zone(ts) ==
    LET shifted == ts[2] - 4 * MsPerHour
    IN  IF shifted < 0 THEN <<ts[1] - 1, shifted + MsPerDay>> ELSE <<ts[1], shifted>>

\* xltime * 1 day + 1899-12-30, then the zone conversion
ToIndex(xltime) == convert_time_zone(xltime)

\* dt.hour(), dt.minute(), dt.second(): whole components of the local time
dt_hour(ts) == ts[2] \div MsPerHour
dt_minute(ts) == (ts[2] % MsPerHour) \div MsPerMinute
dt_second(ts) == (ts[2] % MsPerMinute) \div MsPerSecond

\* "HH:MM:SS".split(":") as <<HH, MM, SS>>
hhmmss_open == <<9, 30, 0>>
hhmmss_close == <<16, 0, 0>>
seconds_of(hhmmss) == hhmmss[1] * 3600 + hhmmss[2] * 60 + hhmmss[3]

\* ----------------------------------------------------------- tables
QuoteCols == {"xltime", "bid-price", "bid-volume", "ask-price", "ask-volume"}
TradeCols == {"xltime", "trade-price", "trade-volume", "trade-rawflag",
              "trade-stringflag"}
RawCols(f) == IF f = "read_data_bbo" THEN QuoteCols ELSE TradeCols

\* pl.DataFrame()
EmptyDataFrame == [cols |-> {}, rows |-> <<>>]

QuoteRow(t, a, b) == ("xltime" :> t) @@ ("ask-price" :> a) @@ ("bid-price" :> b)
TradeRow(t, p, v, flag) ==
    ("xltime" :> t) @@ ("trade-price" :> p) @@ ("trade-volume" :> v)
        @@ ("trade-stringflag" :> flag)

\* ----------------------------------------------------- input domains
\* xltime values (UTC): local 09:29:59, 09:30:00, 16:00:00, 16:00:00.5, 16:00:01
QuoteTimes == {At(13, 29, 59, 0), At(13, 30, 0, 0), At(20, 0, 0, 0),
               At(20, 0, 0, 500), At(20, 0, 1, 0)}
\* <<ask, bid>>: valid; ask = bid; bid = 0; ask = 0 over a negative bid
QuotePrices == {<<2, 1>>, <<1, 1>>, <<1, 0>>, <<0, -1>>}
QuoteRows == {QuoteRow(t, p[1], p[2]) : t \in QuoteTimes, p \in QuotePrices}
PlainQuoteRows == {QuoteRow(t, 2, 1) : t \in {At(13, 30, 0, 0), At(20, 0, 0, 0)}}

\* xltime values (UTC): local 09:30:00 and 16:00:01
TradeTimes == {At(13, 30, 0, 0), At(20, 0, 1, 0)}
TradePrices == {100, 102}
TradeVolumes == {0, 10, 30}
TradeFlags == {"uncategorized", "special", Null}
\* ordinary trades: every time, price and volume
TradeRows == {TradeRow(t, p, v, "uncategorized") : t \in TradeTimes, p \in TradePrices,
                                                   v \in TradeVolumes}
\* trades of one timestamp and volume: every price and flag
PlainTradeRows == {TradeRow(At(13, 30, 0, 0), p, 10, flag) : p \in TradePrices,
                                                              flag \in TradeFlags}

Rows(f) == IF f = "read_data_bbo" THEN QuoteRows ELSE TradeRows
PlainRows(f) == IF f = "read_data_bbo" THEN PlainQuoteRows ELSE PlainTradeRows

\* member names as token sequences
JulyName == <<"2008-07", "-01", ".csv.gz">>
DecName == <<"2008-12", "-31", ".csv.gz">>
JuneName == <<"2008-06", "-30", ".csv.gz">>
CsvName == <<"2008-07", "-01", ".csv">>
NestedName == <<"./", "2008-07", "-01", ".csv.gz">>

Tickers == {"AAA", "BBB"}

\* an archive member: its name, whether extractfile() yields a stream, whether
\* pl.read_csv parses it, and the rows it holds
Member(name, isfile, content) ==
    [name |-> name, isfile |-> isfile, parses |-> TRUE, content |-> content]
Corrupt(name) == [name |-> name, isfile |-> TRUE, parses |-> FALSE, content |-> <<>>]
\* a directory entry: tar_files is the list of its *.tar files, each a
\* sequence of members
Folder(name, is_dir, tar_files) == [name |-> name, is_dir |-> is_dir, tar_files |-> tar_files]

\* the members of the archives whose layout varies: one row each, or corrupt
LayoutMembers(f) ==
    LET one == <<CHOOSE r \in PlainRows(f) : r \in Rows(f)>>
    IN  {Member(JulyName, TRUE, one), Corrupt(DecName),
         Member(DecName, TRUE, one), Member(JulyName, FALSE, one),
         Member(JuneName, TRUE, one), Member(CsvName, TRUE, one),
         Member(NestedName, TRUE, one)}

\* what a ticker folder may hold
LayoutFolders(f, name) ==
    {Folder(name, FALSE, <<>>), Folder(name, TRUE, <<>>)}
        \cup {Folder(name, TRUE, <<a>>) : a \in SeqsUpTo(LayoutMembers(f), MaxMembers)}

Members(folder) == IF folder.tar_files = <<>> THEN 0 ELSE Len(folder.tar_files[1])

StockLists == {[type |-> "list", items |-> {"AAA", "BBB"}],
               [type |-> "set", items |-> {"BBB"}],
               [type |-> "list", items |-> {}],
               [type |-> "str", items |-> {"AAA"}]}

Options(f) ==
    IF f = "read_data_bbo"
    THEN [only_regular_trading_hours : BOOLEAN, merge_same_index : BOOLEAN]
    ELSE [only_non_special_trades : BOOLEAN, only_regular_trading_hours : BOOLEAN,
          merge_sub_trades : BOOLEAN]
DefaultOptions(f) == CHOOSE o \in Options(f) : \A k \in DOMAIN o : o[k]

\* one July member per ticker: the first c rows of t under AAA, the rest under BBB
SplitFolders(t, c) ==
    <<Folder("AAA", TRUE, <<<<Member(JulyName, TRUE, SubSeq(t, 1, c))>>>>),
      Folder("BBB", TRUE, <<<<Member(JulyName, TRUE, SubSeq(t, c + 1, Len(t)))>>>>)>>

\* ------------------------------------------------------------ loader
Months == {<<"2008-07">>, <<"2008-08">>, <<"2008-09">>, <<"2008-10">>,
           <<"2008-11">>, <<"2008-12">>}
Suffix == <<".csv.gz">>

\* faulty variant: either test alone selects the member
IsSelectedEither(m) ==
    (\E month \in Months : StartsWith(m.name, month)) \/ EndsWith(m.name, Suffix)

\* the condition of the csv_gz_files comprehension
IsSelected(m) == (\E month \in Months : StartsWith(m.name, month)) /\ EndsWith(m.name, Suffix)

\* csv_gz_files, as positions in the archive (tar.getmembers() order)
csv_gz_files(tar) == SelectSeq([k \in 1..Len(tar) |-> k], LAMBDA k : IsSelected(tar[k]))

\* tar.extractfile(m) is not None
Extractable(m) == m.isfile

\* the members handed to gzip.open / pl.read_csv
HandedToDecoder(tar) == SelectSeq(csv_gz_files(tar), LAMBDA k : Extractable(tar[k]))

\* pl.read_csv(...).with_columns(pl.lit(stock_symbol).alias("Stock")) of member k
read_csv(f, stock_symbol, tar, k) ==
    [cols |-> RawCols(f) \cup {"Stock"},
     rows |-> [n \in 1..Len(tar[k].content) |->
                  tar[k].content[n] @@ ("Stock" :> stock_symbol)
                      @@ ("src" :> <<stock_symbol, k, n>>)]]

\* pl.concat(dfs, how="vertical_relaxed") of a non-empty list of tables of one schema
concat(dfs) == [cols |-> dfs[1].cols, rows |-> Flatten([k \in 1..Len(dfs) |-> dfs[k].rows])]

\* dfs_to_concat of one archive: the tables of the members that decode
dfs_to_concat(f, stock_symbol, tar) ==
    LET ok == SelectSeq(HandedToDecoder(tar), LAMBDA k : tar[k].parses)
    IN  [j \in 1..Len(ok) |-> read_csv(f, stock_symbol, tar, ok[j])]

\* the "Error reading ..." lines of one archive
DecodeErrors(stock_symbol, tar) ==
    LET bad == SelectSeq(HandedToDecoder(tar), LAMBDA k : ~tar[k].parses)
    IN  [j \in 1..Len(bad) |-> <<"Error reading", stock_symbol, bad[j]>>]

TypeOK ==
    /\ fn \in {"read_data_bbo", "read_data_trade"}
    /\ pc \in {"start", "scan", "concat", "normalize", "filter", "merge", "hours",
               "done", "raised"}
    /\ folder_i \in 1..(Len(fs) + 1)
    /\ stock_set \subseteq Tickers
    /\ error \in {"", "ValueError", "ColumnNotFoundError"}

Start(f, stock_list, options, listing) ==
    /\ fn = f
    /\ args = [stock_list |-> stock_list] @@ options
    /\ fs = listing
    /\ pc = "start"
    /\ stock_set = {}
    /\ folder_i = 1
    /\ stock_dfs = <<>>
    /\ DF = EmptyDataFrame
    /\ error = ""
    /\ decoded = <<>>
    /\ printed = <<>>

\* calls over varying archive layouts, with the default options
InitLayouts(f) ==
    \E sl \in StockLists, a \in LayoutFolders(f, "AAA"), b \in LayoutFolders(f, "BBB") :
        /\ Members(b) <= 1
        /\ Start(f, sl, DefaultOptions(f), <<a, b>>)

\* calls over one July member per ticker, with varying rows and options
InitTables(f) ==
    \E o \in Options(f) :
        \/ \E n \in 0..MaxRows : \E t \in [1..n -> Rows(f)] : \E c \in 0..n :
              Start(f, [type |-> "list", items |-> Tickers], o, SplitFolders(t, c))
        \/ \E n \in 0..MaxPlainRows : \E t \in [1..n -> PlainRows(f)] : \E c \in 0..n :
              Start(f, [type |-> "list", items |-> Tickers], o, SplitFolders(t, c))

InitOf(f) == InitLayouts(f) \/ InitTables(f)

Init == InitOf("read_data_bbo") \/ InitOf("read_data_trade")

\* faulty variant: the type of stock_list is not checked
ValidateUnchecked ==
    /\ pc = "start"
    /\ pc' = IF Len(fs) = 0 THEN "concat" ELSE "scan"
    /\ stock_set' = args.stock_list.items
    /\ UNCHANGED <<fn, args, fs, folder_i, stock_dfs, DF, error, decoded, printed>>

\* the isinstance check, stock_dfs = {}, stock_set = set(stock_list)
Validate ==
    /\ pc = "start"
    /\ IF args.stock_list.type \notin {"list", "set"}
       THEN /\ pc' = "raised"
            /\ error' = "ValueError"
            /\ UNCHANGED stock_set
       ELSE /\ pc' = IF Len(fs) = 0 THEN "concat" ELSE "scan"
            /\ stock_set' = args.stock_list.items
            /\ UNCHANGED error
    /\ UNCHANGED <<fn, args, fs, folder_i, stock_dfs, DF, decoded, printed>>

\* one iteration of "for stock_folder in folder_path.iterdir()"
ScanFolder ==
    /\ pc = "scan"
    /\ LET stock_folder == fs[folder_i]
           stock_symbol == stock_folder.name
           tar_files == stock_folder.tar_files
       IN  IF ~stock_folder.is_dir \/ stock_symbol \notin stock_set
           THEN UNCHANGED <<stock_dfs, decoded, printed>>
           ELSE IF tar_files = <<>>
           THEN /\ printed' = Append(printed, <<"No tar file found", stock_symbol>>)
                /\ UNCHANGED <<stock_dfs, decoded>>
           ELSE LET tar == tar_files[1]
                    dfs == dfs_to_concat(fn, stock_symbol, tar)
                IN  /\ decoded' = decoded \o [j \in 1..Len(HandedToDecoder(tar)) |->
                                                  <<stock_symbol, HandedToDecoder(tar)[j]>>]
                    /\ printed' = printed \o DecodeErrors(stock_symbol, tar)
                    /\ stock_dfs' = IF dfs # <<>>
                                    THEN Append(stock_dfs, [symbol |-> stock_symbol,
                                                            df |-> concat(dfs)])
                                    ELSE stock_dfs
    /\ folder_i' = folder_i + 1
    /\ pc' = IF folder_i = Len(fs) THEN "concat" ELSE "scan"
    /\ UNCHANGED <<fn, args, fs, stock_set, DF, error>>

\* DF = pl.concat(all_dataframes) if all_dataframes else pl.DataFrame()
ConcatAll ==
    /\ pc = "concat"
    /\ DF' = IF stock_dfs # <<>>
             THEN concat([k \in 1..Len(stock_dfs) |-> stock_dfs[k].df])
             ELSE EmptyDataFrame
    /\ pc' = "normalize"
    /\ UNCHANGED <<fn, args, fs, stock_set, folder_i, stock_dfs, error, decoded, printed>>

\* with_columns(xltime * 1 day + 1899-12-30 as "index"), convert_time_zone;
\* the result of DF.drop(...) is discarded
Normalize ==
    /\ pc = "normalize"
    /\ IF "xltime" \notin DF.cols
       THEN /\ pc' = "raised"
            /\ error' = "ColumnNotFoundError"
            /\ UNCHANGED DF
       ELSE /\ DF' = [cols |-> DF.cols \cup {"index"},
                      rows |-> [n \in 1..Len(DF.rows) |->
                                   DF.rows[n] @@ ("index" :> ToIndex(DF.rows[n]["xltime"]))]]
            /\ pc' = "filter"
            /\ UNCHANGED error
    /\ UNCHANGED <<fn, args, fs, stock_set, folder_i, stock_dfs, decoded, printed>>

\* ------------------------------------------------- table operations
\* DataFrame.filter: the rows on which the predicate, evaluated per row as a
\* boolean mask, is true, in order
filter(df, mask) ==
    LET kept == SelectSeq([n \in 1..Len(df.rows) |-> n], LAMBDA n : mask[n])
    IN  [cols |-> df.cols, rows |-> [j \in 1..Len(kept) |-> df.rows[kept[j]]]]

\* faulty variant: the groups come out in the reverse of the order of first
\* occurrence (maintain_order not honoured)
GroupKeysReversed(rows) ==
    LET first == SelectSeq([n \in 1..Len(rows) |-> n],
                           LAMBDA n : \A m \in 1..(n - 1) : rows[m]["index"] # rows[n]["index"])
    IN  [j \in 1..Len(first) |-> rows[first[Len(first) + 1 - j]]["index"]]

\* the distinct "index" values of rows, in order of first occurrence
\* (group_by(..., maintain_order=True))
GroupKeys(rows) ==
    LET first == SelectSeq([n \in 1..Len(rows) |-> n],
                           LAMBDA n : \A m \in 1..(n - 1) : rows[m]["index"] # rows[n]["index"])
    IN  [j \in 1..Len(first) |-> rows[first[j]]["index"]]

\* faulty variant: a group holds the rows of the key's minute, a key coarser
\* than the one the trading-hours filter reads
GroupSameMinute(rows, key) ==
    SelectSeq(rows, LAMBDA r : /\ r["index"][1] = key[1]
                               /\ r["index"][2] \div MsPerMinute = key[2] \div MsPerMinute)

\* the rows of one group, in original order
Group(rows, key) == SelectSeq(rows, LAMBDA r : r["index"] = key)

\* faulty variant: the first row of each group is kept
group_by_first(df) ==
    LET keys == GroupKeys(df.rows)
    IN  [cols |-> df.cols,
         rows |-> [j \in 1..Len(keys) |-> Group(df.rows, keys[j])[1]]]

\* group_by("index", maintain_order=True).last()
group_by_last(df) ==
    LET keys == GroupKeys(df.rows)
    IN  [cols |-> df.cols,
         rows |-> [j \in 1..Len(keys) |->
                      LET g == Group(df.rows, keys[j]) IN g[Len(g)]]]

\* the "common sense" predicates on a quote
\* pl.col("ask-price") > 0, pl.col("bid-price") > 0,
\* pl.col("ask-price") > pl.col("bid-price")
ask_positive(r) == r["ask-price"] > 0
bid_positive(r) == r["bid-price"] > 0
\* faulty variant: a locked quote (ask = bid) passes
ask_not_below_bid(r) == r["ask-price"] >= r["bid-price"]
ask_above_bid(r) == r["ask-price"] > r["bid-price"]

\* hour*3600 + minute*60 + second of the local timestamp
seconds_of_day(ts) == dt_hour(ts) * 3600 + dt_minute(ts) * 60 + dt_second(ts)

\* the two predicates of the trading-hours filter
in_trading_hours(r) ==
    /\ seconds_of_day(r["index"]) >= seconds_of(hhmmss_open)
    /\ seconds_of_day(r["index"]) <= seconds_of(hhmmss_close)

\* faulty variant: a row without a flag passes the comparison
is_uncategorized_or_null(r) ==
    r["trade-stringflag"] = Null \/ r["trade-stringflag"] = "uncategorized"

\* pl.col("trade-stringflag") == "uncategorized" (null compares to null: dropped)
is_uncategorized(r) == r["trade-stringflag"] # Null /\ r["trade-stringflag"] = "uncategorized"

\* Expr.sum() of a column given as a sequence of numbers
RECURSIVE sum(_)
sum(xs) == IF xs = <<>> THEN 0 ELSE Head(xs) + sum(Tail(xs))

RECURSIVE GCD(_, _)
GCD(a, b) == IF b = 0 THEN a ELSE GCD(b, a % b)

\* Float64 division of two non-negative sums: the quotient as a reduced
\* fraction <<numerator, denominator>>; a zero divisor gives the IEEE values
\* NaN (0/0) and inf (x/0), and raises nothing
NaN == <<0, 0>>
Inf == <<1, 0>>
float_div(n, d) ==
    IF d = 0 THEN (IF n = 0 THEN NaN ELSE Inf)
    ELSE <<n \div GCD(n, d), d \div GCD(n, d)>>

\* faulty variant: the plain mean of the prices
mean_price(g) == float_div(sum([n \in 1..Len(g) |-> g[n]["trade-price"]]), Len(g))

\* (price * volume).sum() / volume.sum(), named "trade-price"
vwap(g) ==
    float_div(sum([n \in 1..Len(g) |-> g[n]["trade-price"] * g[n]["trade-volume"]]),
              sum([n \in 1..Len(g) |-> g[n]["trade-volume"]]))

\* pl.sum("trade-volume")
sum_volume(g) == sum([n \in 1..Len(g) |-> g[n]["trade-volume"]])

\* group_by("index", maintain_order=True).agg([vwap, pl.sum("trade-volume")])
group_by_agg(df) ==
    LET keys == GroupKeys(df.rows)
    IN  [cols |-> {"index", "trade-price", "trade-volume"},
         rows |-> [j \in 1..Len(keys) |->
                      LET g == Group(df.rows, keys[j])
                      IN  ("index" :> keys[j]) @@ ("trade-price" :> vwap(g))
                              @@ ("trade-volume" :> sum_volume(g))
                              @@ ("srcs" :> {g[n]["src"] : n \in 1..Len(g)})]]

\* ------------------------------------------ read_data_bbo, the tail
\* apply common sense filter
SanityFilter ==
    /\ fn = "read_data_bbo" /\ pc = "filter"
    /\ LET DF1 == filter(DF, [n \in 1..Len(DF.rows) |-> ask_positive(DF.rows[n])])
           DF2 == filter(DF1, [n \in 1..Len(DF1.rows) |-> bid_positive(DF1.rows[n])])
       IN  DF' = filter(DF2, [n \in 1..Len(DF2.rows) |-> ask_above_bid(DF2.rows[n])])
    /\ pc' = "merge"
    /\ UNCHANGED <<fn, args, fs, stock_set, folder_i, stock_dfs, error, decoded, printed>>

\* if merge_same_index: last quote of the same timestamp
MergeSameIndex ==
    /\ fn = "read_data_bbo" /\ pc = "merge"
    /\ DF' = IF args.merge_same_index THEN group_by_last(DF) ELSE DF
    /\ pc' = "hours"
    /\ UNCHANGED <<fn, args, fs, stock_set, folder_i, stock_dfs, error, decoded, printed>>

\* if only_regular_trading_hours: the trading-hours filter; return DF
RegularHours ==
    /\ fn = "read_data_bbo" /\ pc = "hours"
    /\ DF' = IF args.only_regular_trading_hours
             THEN filter(DF, [n \in 1..Len(DF.rows) |-> in_trading_hours(DF.rows[n])])
             ELSE DF
    /\ pc' = "done"
    /\ UNCHANGED <<fn, args, fs, stock_set, folder_i, stock_dfs, error, decoded, printed>>

\* ---------------------------------------- read_data_trade, the tail
\* if only_non_special_trades: keep the "uncategorized" trades
NonSpecial ==
    /\ fn = "read_data_trade" /\ pc = "filter"
    /\ DF' = IF args.only_non_special_trades
             THEN filter(DF, [n \in 1..Len(DF.rows) |-> is_uncategorized(DF.rows[n])])
             ELSE DF
    /\ pc' = "merge"
    /\ UNCHANGED <<fn, args, fs, stock_set, folder_i, stock_dfs, error, decoded, printed>>

\* if merge_sub_trades: volume-weighted price per timestamp; return DF
MergeSubTrades ==
    /\ fn = "read_data_trade" /\ pc = "merge"
    /\ DF' = IF args.merge_sub_trades THEN group_by_agg(DF) ELSE DF
    /\ pc' = "done"
    /\ UNCHANGED <<fn, args, fs, stock_set, folder_i, stock_dfs, error, decoded, printed>>

Next ==
    \/ Validate
    \/ ScanFolder
    \/ ConcatAll
    \/ Normalize
    \/ SanityFilter
    \/ MergeSameIndex
    \/ RegularHours
    \/ NonSpecial
    \/ MergeSubTrades

Spec == Init /\ [][Next]_vars

\* one function at a time
NextBbo ==
    \/ Validate
    \/ ScanFolder
    \/ ConcatAll
    \/ Normalize
    \/ SanityFilter
    \/ MergeSameIndex
    \/ RegularHours

NextTrade ==
    \/ Validate
    \/ ScanFolder
    \/ ConcatAll
    \/ Normalize
    \/ NonSpecial
    \/ MergeSubTrades

SpecBbo == InitOf("read_data_bbo") /\ [][NextBbo]_vars
SpecTrade == InitOf("read_data_trade") /\ [][NextTrade]_vars

\* ------------------------------------------------------------ claims
\* the rows decoded for the whole call, in concatenation order (before the
\* time normalisation)
Decoded == Flatten([k \in 1..Len(stock_dfs) |-> stock_dfs[k].df.rows])

\* the row of the listing that src = <<ticker, member, line>> names
RawRowAt(src) ==
    LET folder == CHOOSE x \in Range(fs) : x.name = src[1]
    IN  folder.tar_files[1][src[2]].content[src[3]]

Sane(r) == r["ask-price"] > 0 /\ r["bid-price"] > 0 /\ r["ask-price"] > r["bid-price"]

Returned(f) == fn = f /\ pc = "done"

\* C1: every row read_data_bbo returns has ask-price > 0, bid-price > 0 and
\* ask-price > bid-price, for every value of merge_same_index and
\* only_regular_trading_hours, and its prices are those of the input row it
\* came from (the row a merge keeps is a row that passed the predicates).
C1_ReturnedQuotesSane ==
    Returned("read_data_bbo") =>
        \A n \in 1..Len(DF.rows) :
            LET r == DF.rows[n]
            IN  /\ Sane(r)
                /\ r["ask-price"] = RawRowAt(r["src"])["ask-price"]
                /\ r["bid-price"] = RawRowAt(r["src"])["bid-price"]

\* a merged result that kept a row although an invalid quote was decoded
\* with the same timestamp after it
C1_Witness ==
    /\ Returned("read_data_bbo") /\ args.merge_same_index
    /\ \E n \in 1..Len(DF.rows) : \E m \in 1..Len(Decoded) :
          /\ Decoded[m]["xltime"] = DF.rows[n]["xltime"]
          /\ ~Sane(Decoded[m])
          /\ \E k \in 1..(m - 1) : Decoded[k]["src"] = DF.rows[n]["src"]

\* the local time of day, fractional seconds included, lies in [open, close]
ExactlyInHours(ts) ==
    /\ ts[2] >= seconds_of(hhmmss_open) * MsPerSecond
    /\ ts[2] <= seconds_of(hhmmss_close) * MsPerSecond

\* the n-th decoded quote is sanity-valid and is not replaced by a later
\* sanity-valid quote of its timestamp
Surviving(n) ==
    /\ Sane(Decoded[n])
    /\ args.merge_same_index =>
          \A m \in (n + 1)..Len(Decoded) :
              ~(Sane(Decoded[m]) /\ Decoded[m]["xltime"] = Decoded[n]["xltime"])

\* C2: with only_regular_trading_hours, read_data_bbo retains a sanity-valid
\* quote if and only if its local time of day, at full resolution, lies in
\* [09:30:00, 16:00:00].
C2_HoursAtFullResolution ==
    (Returned("read_data_bbo") /\ args.only_regular_trading_hours) =>
        \A n \in 1..Len(Decoded) :
            Surviving(n) =>
                ((\E m \in 1..Len(DF.rows) : DF.rows[m]["src"] = Decoded[n]["src"])
                    <=> ExactlyInHours(ToIndex(Decoded[n]["xltime"])))

\* C3: with only_regular_trading_hours, every row read_data_trade returns has
\* a local time of day inside [open, close].
C3_TradesInHours ==
    (Returned("read_data_trade") /\ args.only_regular_trading_hours) =>
        \A n \in 1..Len(DF.rows) : ExactlyInHours(DF.rows[n]["index"])

\* the decoded trades that pass the flag filter when it is enabled
Contributing ==
    SelectSeq(Decoded, LAMBDA r : args.only_non_special_trades =>
                                      r["trade-stringflag"] = "uncategorized")

\* the trades of one timestamp, as a set (rows differ in "src")
TradesAt(t) == {r \in Range(Contributing) : r["xltime"] = t}
TradeTimestamps == {r["xltime"] : r \in Range(Contributing)}

RECURSIVE TotalVolume(_)
TotalVolume(S) ==
    IF S = {} THEN 0
    ELSE LET r == CHOOSE x \in S : TRUE
         IN  r["trade-volume"] + TotalVolume(S \ {r})

RECURSIVE Turnover(_)
Turnover(S) ==
    IF S = {} THEN 0
    ELSE LET r == CHOOSE x \in S : TRUE
         IN  r["trade-price"] * r["trade-volume"] + Turnover(S \ {r})

\* C4: with merge_sub_trades, read_data_trade returns exactly one row per
\* timestamp of the (flag-filtered) trades; its trade-volume is the sum of the
\* group's volumes and its trade-price is sum(price*volume)/sum(volume).
C4_VolumeWeightedPrice ==
    (Returned("read_data_trade") /\ args.merge_sub_trades) =>
        /\ Len(DF.rows) = Cardinality(TradeTimestamps)
        /\ \A t \in TradeTimestamps :
              \E n \in 1..Len(DF.rows) :
                  LET r == DF.rows[n]
                      price == r["trade-price"]
                  IN  /\ r["index"] = ToIndex(t)
                      /\ r["trade-volume"] = TotalVolume(TradesAt(t))
                      /\ price[1] * TotalVolume(TradesAt(t)) = price[2] * Turnover(TradesAt(t))
                      /\ TotalVolume(TradesAt(t)) > 0 => price[2] > 0

\* (100, 10) and (102, 30) at one timestamp returned as price 101.5 = 203/2,
\* volume 40
C4_Witness ==
    /\ Returned("read_data_trade") /\ args.merge_sub_trades
    /\ \E t \in TradeTimestamps :
          /\ {<<r["trade-price"], r["trade-volume"]>> : r \in TradesAt(t)}
                = {<<100, 10>>, <<102, 30>>}
          /\ Cardinality(TradesAt(t)) = 2
          /\ \E n \in 1..Len(DF.rows) :
                /\ DF.rows[n]["index"] = ToIndex(t)
                /\ DF.rows[n]["trade-price"] = <<203, 2>>
                /\ DF.rows[n]["trade-volume"] = 40

\* C5: with merge_sub_trades, a timestamp whose trades have total volume 0
\* makes the call fail; no table is returned.
C5_ZeroVolumeRaises ==
    (fn = "read_data_trade" /\ args.merge_sub_trades
        /\ \E t \in TradeTimestamps : TotalVolume(TradesAt(t)) = 0)
    => pc # "done"

AllDefault == \A k \in DOMAIN args \ {"stock_list"} : args[k]

\* C6: with the default options, every row read_data_bbo and read_data_trade
\* return carries a Stock equal to the ticker of the archive it came from and
\* an index timestamp.
C6_StockAndIndex ==
    (pc = "done" /\ AllDefault) =>
        \A n \in 1..Len(DF.rows) :
            LET r == DF.rows[n]
            IN  /\ "Stock" \in DOMAIN r
                /\ "index" \in DOMAIN r
                /\ r["Stock"] \in Tickers
                /\ "src" \in DOMAIN r => r["Stock"] = r["src"][1]

ValidList == args.stock_list.type \in {"list", "set"}

\* C7: when no ticker yields decodable data, the call returns a zero-row
\* table and does not raise.
C7_EmptyUniverseReturns ==
    (ValidList /\ pc \notin {"start", "scan"} /\ stock_dfs = <<>>) =>
        /\ pc # "raised"
        /\ pc = "done" => DF.rows = <<>>

\* the sanity-valid quotes, in concatenation order
SaneDecoded == SelectSeq(Decoded, Sane)
FirstAt(t) == CHOOSE n \in 1..Len(SaneDecoded) :
                /\ SaneDecoded[n]["xltime"] = t
                /\ \A m \in 1..(n - 1) : SaneDecoded[m]["xltime"] # t
LastAt(t) == CHOOSE n \in 1..Len(SaneDecoded) :
               /\ SaneDecoded[n]["xltime"] = t
               /\ \A m \in (n + 1)..Len(SaneDecoded) : SaneDecoded[m]["xltime"] # t

\* C8: with merge_same_index, the aggregated quote table holds, for each
\* timestamp of the sanity-valid rows, exactly the last row of that timestamp,
\* the timestamps in order of first occurrence; no two of its rows share a
\* (Stock, timestamp) pair.
C8_LastQuoteWins ==
    (fn = "read_data_bbo" /\ pc = "hours" /\ args.merge_same_index) =>
        /\ Len(DF.rows) = Cardinality({r["xltime"] : r \in Range(SaneDecoded)})
        /\ \A n \in 1..Len(DF.rows) :
              /\ DF.rows[n]["src"] = SaneDecoded[LastAt(DF.rows[n]["xltime"])]["src"]
              /\ \A m \in (n + 1)..Len(DF.rows) :
                    /\ FirstAt(DF.rows[n]["xltime"]) < FirstAt(DF.rows[m]["xltime"])
                    /\ <<DF.rows[n]["Stock"], DF.rows[n]["index"]>>
                          # <<DF.rows[m]["Stock"], DF.rows[m]["index"]>>

\* three valid quotes, the first and the third of one timestamp: the third is
\* kept, ahead of the second
C8_Witness ==
    /\ fn = "read_data_bbo" /\ pc = "hours" /\ args.merge_same_index
    /\ Len(SaneDecoded) = 3 /\ Len(DF.rows) = 2
    /\ SaneDecoded[1]["xltime"] = SaneDecoded[3]["xltime"]
    /\ DF.rows[1]["src"] = SaneDecoded[3]["src"]
    /\ DF.rows[2]["src"] = SaneDecoded[2]["src"]

\* the name starts with a month prefix "2008-07".."2008-12" and ends with ".csv.gz"
NameAllowed(name) ==
    /\ name # <<>>
    /\ name[1] \in {"2008-07", "2008-08", "2008-09", "2008-10", "2008-11", "2008-12"}
    /\ name[Len(name)] = ".csv.gz"

\* the folder is a directory of a requested ticker holding an archive
Opened(folder) == folder.is_dir /\ folder.name \in stock_set /\ folder.tar_files # <<>>

\* C9: a member that fails to parse drops only itself: the call does not
\* raise, and every member that parses contributes its rows to the
\* concatenated table.
C9_FailureIsolated ==
    (ValidList /\ \E n \in 1..Len(printed) : printed[n][1] = "Error reading") =>
        /\ pc # "raised"
        /\ pc = "normalize" =>
              \A folder \in Range(fs) : Opened(folder) =>
                  \A k \in 1..Len(folder.tar_files[1]) :
                      LET m == folder.tar_files[1][k]
                      IN  (NameAllowed(m.name) /\ m.isfile /\ m.parses) =>
                              \A line \in 1..Len(m.content) :
                                  \E n \in 1..Len(DF.rows) :
                                      DF.rows[n]["src"] = <<folder.name, k, line>>

\* the members of the folders scanned so far whose name is allowed (and, with
\* streams, for which extractfile() yields a stream), in listing and archive
\* order
ExpectedDecoded(streams) ==
    Flatten([i \in 1..(folder_i - 1) |->
        IF Opened(fs[i])
        THEN LET tar == fs[i].tar_files[1]
                 ks == SelectSeq([k \in 1..Len(tar) |-> k],
                                 LAMBDA k : NameAllowed(tar[k].name)
                                                /\ (streams => tar[k].isfile))
             IN  [j \in 1..Len(ks) |-> <<fs[i].name, ks[j]>>]
        ELSE <<>>])

\* C10 as stated: a member is handed to the decoder if and only if its name
\* starts with a month prefix and ends with ".csv.gz", in archive order.
C10_AllowListByName == decoded = ExpectedDecoded(FALSE)

\* C10 amended: ... if and only if its name matches and extractfile() yields
\* a stream for it.
C10_AllowList == decoded = ExpectedDecoded(TRUE)

\* the second member of an archive was decoded although the first was not
C10_Witness ==
    /\ pc = "concat"
    /\ \E i \in 1..Len(fs) :
          /\ Opened(fs[i])
          /\ Len(fs[i].tar_files[1]) = 2
          /\ ~NameAllowed(fs[i].tar_files[1][1].name)
          /\ <<fs[i].name, 2>> \in Range(decoded)
          /\ <<fs[i].name, 1>> \notin Range(decoded)

\* C11: the time normalisation replaces the serial date by the timestamp: the
\* table it produces has one row per decoded row, and the table read_data_bbo
\* returns (and read_data_trade without merge_sub_trades) has the column
\* "index" and no column "xltime".
C11_SerialDateDropped ==
    /\ pc = "filter" => Len(DF.rows) = Len(Decoded)
    /\ (pc = "done" /\ (fn = "read_data_trade" => ~args.merge_sub_trades)) =>
          /\ "index" \in DF.cols
          /\ "xltime" \notin DF.cols
          /\ \A n \in 1..Len(DF.rows) : "xltime" \notin DOMAIN DF.rows[n]

\* the raw rows a returned trade row was built from
Sources(r) == IF "srcs" \in DOMAIN r THEN r["srcs"] ELSE {r["src"]}

\* the decoded trades of one timestamp whose flag is "uncategorized"
UncategorizedAt(index) ==
    {d \in Range(Decoded) : /\ ToIndex(d["xltime"]) = index
                            /\ d["trade-stringflag"] = "uncategorized"}

\* C12: with only_non_special_trades, every raw row a row returned by
\* read_data_trade is, or was aggregated from, has trade-stringflag
\* "uncategorized"; the price and the volume of a returned row are those of
\* the uncategorized rows of its timestamp alone, so that rows with another
\* flag or with no flag change neither.
C12_OnlyUncategorized ==
    (Returned("read_data_trade") /\ args.only_non_special_trades) =>
        \A n \in 1..Len(DF.rows) :
            LET r == DF.rows[n]
                U == UncategorizedAt(r["index"])
            IN  /\ \A s \in Sources(r) :
                      RawRowAt(s)["trade-stringflag"] = "uncategorized"
                /\ Sources(r) \subseteq {d["src"] : d \in U}
                /\ IF args.merge_sub_trades
                   THEN /\ r["trade-volume"] = TotalVolume(U)
                        /\ r["trade-price"][1] * TotalVolume(U)
                              = r["trade-price"][2] * Turnover(U)
                   ELSE /\ r["trade-volume"] = RawRowAt(r["src"])["trade-volume"]
                        /\ r["trade-price"] = RawRowAt(r["src"])["trade-price"]

\* three trades of one timestamp, one "uncategorized", one "special" and one
\* without a flag, returned as one row holding the volume of the first alone
C12_Witness ==
    /\ Returned("read_data_trade")
    /\ args.only_non_special_trades /\ args.merge_sub_trades
    /\ Len(Decoded) = 3
    /\ {d["trade-stringflag"] : d \in Range(Decoded)} = TradeFlags
    /\ Len(DF.rows) = 1
    /\ Cardinality(DF.rows[1]["srcs"]) = 1
    /\ DF.rows[1]["trade-volume"] = 10

\* C13: the quote aggregation is idempotent: grouping the table produced by
\* group_by("index").last() by "index" again and keeping the last row of each
\* group gives the same table, columns, rows and row order.
C13_AggregationIdempotent ==
    (fn = "read_data_bbo" /\ pc \in {"hours", "done"} /\ args.merge_same_index) =>
        group_by_last(DF) = DF

\* an aggregated table of two timestamps, one of which had two valid quotes
C13_Witness ==
    /\ fn = "read_data_bbo" /\ pc = "hours" /\ args.merge_same_index
    /\ Len(DF.rows) = 2
    /\ Len(SaneDecoded) = 3
    /\ DF.rows[1]["index"] # DF.rows[2]["index"]

\* the requested tickers whose directory holds no archive, as diagnosed
Skipped == {printed[n][2] : n \in {m \in 1..Len(printed) : printed[m][1] = "No tar file found"}}

\* a requested ticker whose directory was scanned and holds no archive has
\* its diagnostic printed and nothing decoded
SkippedContributeNothing ==
    /\ \A i \in 1..(folder_i - 1) :
          (fs[i].is_dir /\ fs[i].name \in stock_set /\ fs[i].tar_files = <<>>)
              => fs[i].name \in Skipped
    /\ \A t \in Skipped :
          /\ \A k \in 1..Len(stock_dfs) : stock_dfs[k].symbol # t
          /\ \A k \in 1..Len(decoded) : decoded[k][1] # t
          /\ pc \in {"normalize", "filter"} =>
                \A n \in 1..Len(DF.rows) : DF.rows[n]["Stock"] # t

\* every row of every member that parses, of every ticker that has an
\* archive, is in the concatenated table
OthersUnaffected ==
    pc = "normalize" =>
        \A folder \in Range(fs) : Opened(folder) =>
            \A k \in 1..Len(folder.tar_files[1]) :
                LET m == folder.tar_files[1][k]
                IN  (NameAllowed(m.name) /\ m.isfile /\ m.parses) =>
                        \A line \in 1..Len(m.content) :
                            \E n \in 1..Len(DF.rows) :
                                DF.rows[n]["src"] = <<folder.name, k, line>>

\* C14: a requested ticker whose directory holds no archive is skipped with a
\* diagnostic and the call does not fail: the ticker contributes no rows and
\* the rows of the other tickers are all there.
C14_MissingArchiveSkipped ==
    (ValidList /\ Skipped # {}) =>
        /\ pc # "raised"
        /\ SkippedContributeNothing
        /\ OthersUnaffected

\* C15: a stock_list that is neither a list nor a set makes read_data_bbo and
\* read_data_trade raise ValueError at once: no folder is scanned, no archive
\* opened, no member decoded, nothing printed, and no table or ticker set
\* built.
C15_RejectedBeforeAnyWork ==
    ~ValidList =>
        /\ pc \in {"start", "raised"}
        /\ pc = "raised" => error = "ValueError"
        /\ folder_i = 1
        /\ stock_set = {}
        /\ stock_dfs = <<>>
        /\ decoded = <<>>
        /\ printed = <<>>
        /\ DF = EmptyDataFrame

\* a string was passed although the listing holds an archive of the ticker it
\* names, with a member that would have been decoded
C15_Witness ==
    /\ ~ValidList
    /\ pc = "raised" /\ error = "ValueError"
    /\ \E i \in 1..Len(fs) :
          /\ fs[i].is_dir /\ fs[i].name \in args.stock_list.items
          /\ fs[i].tar_files # <<>>
          /\ HandedToDecoder(fs[i].tar_files[1]) # <<>>

\* d is the last valid decoded quote of its ticker at its timestamp
LastOfTicker(d) ==
    \E n \in 1..Len(SaneDecoded) :
        /\ SaneDecoded[n] = d
        /\ \A m \in (n + 1)..Len(SaneDecoded) :
              ~(/\ SaneDecoded[m]["Stock"] = d["Stock"]
                /\ SaneDecoded[m]["xltime"] = d["xltime"])

\* C16: the same-timestamp aggregation works per ticker: with
\* merge_same_index, read_data_bbo returns, for each ticker and timestamp
\* (inside the hours the code's filter keeps), that ticker's own last valid
\* quote; with merge_sub_trades, no row read_data_trade returns was
\* aggregated from trades of two tickers.
C16_PerTickerAggregation ==
    /\ (Returned("read_data_bbo") /\ args.merge_same_index) =>
          \A d \in Range(SaneDecoded) :
              (/\ LastOfTicker(d)
               /\ args.only_regular_trading_hours =>
                      in_trading_hours([index |-> ToIndex(d["xltime"])]))
              => \E n \in 1..Len(DF.rows) : DF.rows[n]["src"] = d["src"]
    /\ (Returned("read_data_trade") /\ args.merge_sub_trades) =>
          \A n \in 1..Len(DF.rows) :
              Cardinality({s[1] : s \in DF.rows[n]["srcs"]}) <= 1

\* the table after the three sanity filters, rebuilt from the decoded rows
Sanitized ==
    [cols |-> DF.cols,
     rows |-> [n \in 1..Len(SaneDecoded) |->
                  SaneDecoded[n] @@ ("index" :> ToIndex(SaneDecoded[n]["xltime"]))]]

\* the specified order: the trading-hours filter first, the aggregation after
HoursThenMerge ==
    LET hours == IF args.only_regular_trading_hours
                 THEN filter(Sanitized, [n \in 1..Len(Sanitized.rows) |->
                                            in_trading_hours(Sanitized.rows[n])])
                 ELSE Sanitized
    IN  IF args.merge_same_index THEN group_by_last(hours) ELSE hours

\* C17: read_data_bbo aggregates first and filters the trading hours after;
\* the table it returns is the table the specified order (hours filter, then
\* keep-last aggregation) gives on the same input, same rows in the same
\* order.
C17_HoursFilterCommutes ==
    Returned("read_data_bbo") => DF = HoursThenMerge

\* two valid quotes of one minute, 16:00:00 and 16:00:01, with both options
\* on: the first is returned, the second is not
C17_Witness ==
    /\ Returned("read_data_bbo")
    /\ args.merge_same_index /\ args.only_regular_trading_hours
    /\ Len(SaneDecoded) = 2
    /\ SaneDecoded[1]["xltime"] = At(20, 0, 0, 0)
    /\ SaneDecoded[2]["xltime"] = At(20, 0, 1, 0)
    /\ Len(DF.rows) = 1
    /\ DF.rows[1]["src"] = SaneDecoded[1]["src"]

=============================================================================
